---- MODULE Spec2Model ----
(***************************************************************************)
(* BasketballDataExtractor (src/data_extractor/basketball_data_extractor.py)*)
(* as a state machine: six append-only record collections, six extraction  *)
(* operations that fill them, three persistence operations and one summary *)
(* operation that read them.                                               *)
(*                                                                         *)
(* Python values are tagged, so that None, ints, floats, strings and bools *)
(* stay distinct: [t, n, d, s] with t the type, n/d an exact number (d = 1 *)
(* for an int, n/d in lowest terms for a float) and s a string.  A dict    *)
(* that the code iterates is a sequence of <<key, value>> pairs with       *)
(* distinct keys (insertion order); a dict the code only looks keys up in  *)
(* is a function on its key set.                                           *)
(***************************************************************************)
EXTENDS Integers, Sequences, FiniteSets, TLC

\* ------------------------------------------------------------------ bounds

\* Longest per-frame list (and event list) handed to one extraction call.
MaxFrames == 2
\* Most records the extractor holds in all six collections together.
MaxRecords == 3

\* ------------------------------------------------------------ Python values

PyNone == [t |-> "none", n |-> 0, d |-> 1, s |-> ""]
PyInt(k) == [t |-> "int", n |-> k, d |-> 1, s |-> ""]
PyStr(x) == [t |-> "str", n |-> 0, d |-> 1, s |-> x]
PyBool(b) == [t |-> "bool", n |-> IF b THEN 1 ELSE 0, d |-> 1, s |-> ""]

Abs(k) == IF k < 0 THEN -k ELSE k

RECURSIVE Gcd(_, _)
Gcd(a, b) == IF b = 0 THEN a ELSE Gcd(b, a % b)

\* The float a/b, exactly (b > 0).
PyFloat(a, b) ==
    LET g == Gcd(Abs(a), b)
    IN  [t |-> "float", n |-> a \div g, d |-> b \div g, s |-> ""]

\* x / y, x * y, x + y, x - y on numbers (true division yields a float).
TrueDiv(x, y) == PyFloat(x.n * y.d, x.d * y.n)
Mul(x, y) ==
    IF x.t = "int" /\ y.t = "int" THEN PyInt(x.n * y.n)
    ELSE PyFloat(x.n * y.n, x.d * y.d)
Add(x, y) ==
    IF x.t = "int" /\ y.t = "int" THEN PyInt(x.n + y.n)
    ELSE PyFloat(x.n * y.d + y.n * x.d, x.d * y.d)
Sub(x, y) ==
    IF x.t = "int" /\ y.t = "int" THEN PyInt(x.n - y.n)
    ELSE PyFloat(x.n * y.d - y.n * x.d, x.d * y.d)
\* x < y on numbers.
Less(x, y) == x.n * y.d < y.n * x.d

\* The frame rate the timestamps assume, as the float literal 30.0.
FPS == 30
FPSf == PyFloat(FPS, 1)
\* The float literal 3.6 (m/s to km/h).
KMH == PyFloat(36, 10)

\* dict.get(key, default) on a dict held as a function.
Get(dict, key, default) == IF key \in DOMAIN dict THEN dict[key] ELSE default

\* The empty dict.
EmptyDict == [k \in {} |-> PyNone]

RECURSIVE Concat(_)
Concat(ss) == IF ss = <<>> THEN <<>> ELSE Head(ss) \o Concat(Tail(ss))

Min(a, b) == IF a < b THEN a ELSE b

\* ------------------------------------------------------------------- state

VARIABLES
    player_data, ball_data, pass_data, interception_data, speed_data,
    team_possession_data,
    \* The last call: its name, its arguments, the length its collection had
    \* when it began, the input index each appended record came from, the
    \* exception it ended in ("none" when it returned) and what it returned.
    call

collections ==
    <<player_data, ball_data, pass_data, interception_data, speed_data,
      team_possession_data>>

vars == <<player_data, ball_data, pass_data, interception_data, speed_data,
          team_possession_data, call>>

TotalRecords ==
    Len(player_data) + Len(ball_data) + Len(pass_data)
    + Len(interception_data) + Len(speed_data) + Len(team_possession_data)

NoArgs ==
    [tracks |-> <<>>, assignment |-> <<>>, possession |-> <<>>,
     frame_numbers |-> <<>>, events |-> <<>>, filename |-> PyNone]

Call(op, args, base, log, err, ret) ==
    [op |-> op, args |-> args, base |-> base, log |-> log, err |-> err,
     ret |-> ret]

\* __init__: six empty collections.
Init ==
    /\ player_data = <<>>
    /\ ball_data = <<>>
    /\ pass_data = <<>>
    /\ interception_data = <<>>
    /\ speed_data = <<>>
    /\ team_possession_data = <<>>
    /\ call = Call("__init__", NoArgs, 0, <<>>, "none", PyNone)

\* FrameNum with the fallback counting frames from 1.
FrameNumOneBased(frame_numbers, frame_idx) ==
    IF frame_idx < Len(frame_numbers) THEN frame_numbers[frame_idx + 1]
    ELSE frame_idx + 1

\* frame_numbers[frame_idx] if frame_idx < len(frame_numbers) else frame_idx
\* (frame_idx counts from 0).
FrameNum(frame_numbers, frame_idx) ==
    IF frame_idx < Len(frame_numbers) THEN frame_numbers[frame_idx + 1]
    ELSE frame_idx

\* Timestamp with floor division, frame_num // 30.0.
TimestampFloorDiv(frame_num) == PyFloat(frame_num \div FPS, 1)

\* frame_num / 30.0
Timestamp(frame_num) == TrueDiv(PyInt(frame_num), FPSf)

\* --------------------------------------------------------- extract_speed_data

speed_entry(frame_num, player_id, speed) ==
    [frame |-> PyInt(frame_num),
     player_id |-> player_id,
     speed_mps |-> speed,
     speed_kmh |-> Mul(speed, KMH),
     timestamp |-> Timestamp(frame_num)]

\* The loop of extract_speed_data: one [idx, rec] per player of each frame.
SpeedEmitted(player_speed_per_frame, frame_numbers) ==
    Concat([i \in 1..Len(player_speed_per_frame) |->
        [j \in 1..Len(player_speed_per_frame[i]) |->
            [idx |-> i - 1,
             rec |-> speed_entry(FrameNum(frame_numbers, i - 1),
                                 player_speed_per_frame[i][j][1],
                                 player_speed_per_frame[i][j][2])]]])

Recs(emitted) == [k \in 1..Len(emitted) |-> emitted[k].rec]
Idxs(emitted) == [k \in 1..Len(emitted) |-> emitted[k].idx]

extract_speed_data(player_speed_per_frame, frame_numbers) ==
    LET emitted == SpeedEmitted(player_speed_per_frame, frame_numbers)
    IN  /\ TotalRecords + Len(emitted) <= MaxRecords
        /\ speed_data' = speed_data \o Recs(emitted)
        /\ call' = Call("extract_speed_data",
                        [NoArgs EXCEPT !.tracks = player_speed_per_frame,
                                       !.frame_numbers = frame_numbers],
                        Len(speed_data), Idxs(emitted), "none", PyNone)
        /\ UNCHANGED <<player_data, ball_data, pass_data, interception_data,
                       team_possession_data>>

\* -------------------------------------------------------- extract_player_data

\* bbox[k] if len(bbox) >= 4 else None (k counts from 0).
BoxField(bbox, k) == IF Len(bbox) >= 4 THEN bbox[k + 1] ELSE PyNone

\* The players a possession entry holds: the keys of a dict, the items of a
\* list or of another iterable; a scalar holds none.
Members(possession) == {possession.items[k] : k \in 1..Len(possession.items)}

\* HasBall without the isinstance checks.
HasBallAnyShape(player_id, possession) == player_id \in Members(possession)

\* isinstance(possession, dict) / isinstance(possession, list): membership;
\* anything else: False.
HasBall(player_id, possession) ==
    IF possession.kind = "dict" THEN player_id \in Members(possession)
    ELSE IF possession.kind = "list" THEN player_id \in Members(possession)
    ELSE FALSE

player_entry(frame_num, player_id, track_info, assignment, possession) ==
    LET bbox == Get(track_info, "bbox", <<>>)
    IN  [frame |-> PyInt(frame_num),
         player_id |-> player_id,
         team |-> Get(assignment, player_id, PyStr("Unknown")),
         x_min |-> BoxField(bbox, 0),
         y_min |-> BoxField(bbox, 1),
         x_max |-> BoxField(bbox, 2),
         y_max |-> BoxField(bbox, 3),
         has_ball |-> PyBool(HasBall(player_id, possession)),
         timestamp |-> Timestamp(frame_num)]

\* zip(player_tracks, player_assignment, ball_aquisition) stops with the
\* shortest of the three.
ZipLen(player_tracks, player_assignment, ball_aquisition) ==
    Min(Len(player_tracks), Min(Len(player_assignment), Len(ball_aquisition)))

PlayerEmitted(player_tracks, player_assignment, ball_aquisition, frame_numbers) ==
    Concat([i \in 1..ZipLen(player_tracks, player_assignment, ball_aquisition) |->
        [j \in 1..Len(player_tracks[i]) |->
            [idx |-> i - 1,
             rec |-> player_entry(FrameNum(frame_numbers, i - 1),
                                  player_tracks[i][j][1],
                                  player_tracks[i][j][2],
                                  player_assignment[i],
                                  ball_aquisition[i])]]])

extract_player_data(player_tracks, player_assignment, ball_aquisition, frame_numbers) ==
    LET emitted == PlayerEmitted(player_tracks, player_assignment,
                                 ball_aquisition, frame_numbers)
    IN  /\ TotalRecords + Len(emitted) <= MaxRecords
        /\ player_data' = player_data \o Recs(emitted)
        /\ call' = Call("extract_player_data",
                        [NoArgs EXCEPT !.tracks = player_tracks,
                                       !.assignment = player_assignment,
                                       !.possession = ball_aquisition,
                                       !.frame_numbers = frame_numbers],
                        Len(player_data), Idxs(emitted), "none", PyNone)
        /\ UNCHANGED <<ball_data, pass_data, interception_data, speed_data,
                       team_possession_data>>

\* ---------------------------------------------------------- extract_ball_data

\* ball_info and 1 in ball_info
BallDetected(ball_info) == DOMAIN ball_info # {} /\ 1 \in DOMAIN ball_info

ball_entry(frame_num, ball_info) ==
    LET bbox == Get(ball_info[1], "bbox", <<>>)
    IN  [frame |-> PyInt(frame_num),
         x_min |-> BoxField(bbox, 0),
         y_min |-> BoxField(bbox, 1),
         x_max |-> BoxField(bbox, 2),
         y_max |-> BoxField(bbox, 3),
         center_x |-> IF Len(bbox) >= 4
                      THEN TrueDiv(Add(bbox[1], bbox[3]), PyInt(2)) ELSE PyNone,
         center_y |-> IF Len(bbox) >= 4
                      THEN TrueDiv(Add(bbox[2], bbox[4]), PyInt(2)) ELSE PyNone,
         timestamp |-> Timestamp(frame_num)]

BallEmitted(ball_tracks, frame_numbers) ==
    Concat([i \in 1..Len(ball_tracks) |->
        IF BallDetected(ball_tracks[i])
        THEN << [idx |-> i - 1,
                 rec |-> ball_entry(FrameNum(frame_numbers, i - 1), ball_tracks[i])] >>
        ELSE <<>>])

extract_ball_data(ball_tracks, frame_numbers) ==
    LET emitted == BallEmitted(ball_tracks, frame_numbers)
    IN  /\ TotalRecords + Len(emitted) <= MaxRecords
        /\ ball_data' = ball_data \o Recs(emitted)
        /\ call' = Call("extract_ball_data",
                        [NoArgs EXCEPT !.tracks = ball_tracks,
                                       !.frame_numbers = frame_numbers],
                        Len(ball_data), Idxs(emitted), "none", PyNone)
        /\ UNCHANGED <<player_data, pass_data, interception_data, speed_data,
                       team_possession_data>>

\* ---------------------------------------------------------- extract_pass_data

\* One pass dict, when the collection holds `held` records.
pass_entry(pass_info, held) ==
    [pass_id |-> Get(pass_info, "pass_id", PyInt(held)),
     start_frame |-> Get(pass_info, "start_frame", PyNone),
     end_frame |-> Get(pass_info, "end_frame", PyNone),
     passer_id |-> Get(pass_info, "passer_id", PyNone),
     receiver_id |-> Get(pass_info, "receiver_id", PyNone),
     passer_team |-> Get(pass_info, "passer_team", PyNone),
     receiver_team |-> Get(pass_info, "receiver_team", PyNone),
     pass_type |-> Get(pass_info, "pass_type", PyStr("Unknown")),
     start_timestamp |-> TrueDiv(Get(pass_info, "start_frame", PyInt(0)), FPSf),
     end_timestamp |-> TrueDiv(Get(pass_info, "end_frame", PyInt(0)), FPSf),
     duration |-> TrueDiv(Sub(Get(pass_info, "end_frame", PyInt(0)),
                              Get(pass_info, "start_frame", PyInt(0))), FPSf)]

\* PassEmitted with len(self.pass_data) read once, before the loop.
PassEmittedStale(passes, held) ==
    [i \in 1..Len(passes) |->
        [idx |-> i - 1, rec |-> pass_entry(passes[i], held)]]

\* The loop of extract_pass_data: len(self.pass_data) grows with each append.
PassEmitted(passes, held) ==
    [i \in 1..Len(passes) |->
        [idx |-> i - 1, rec |-> pass_entry(passes[i], held + i - 1)]]

\* extract_pass_data assigning the new records instead of appending them.
extract_pass_data_overwrite(passes, frame_numbers) ==
    LET emitted == PassEmitted(passes, Len(pass_data))
    IN  /\ TotalRecords + Len(emitted) <= MaxRecords
        /\ pass_data' = Recs(emitted)
        /\ call' = Call("extract_pass_data",
                        [NoArgs EXCEPT !.events = passes,
                                       !.frame_numbers = frame_numbers],
                        Len(pass_data), Idxs(emitted), "none", PyNone)
        /\ UNCHANGED <<player_data, ball_data, interception_data, speed_data,
                       team_possession_data>>

extract_pass_data(passes, frame_numbers) ==
    LET emitted == PassEmitted(passes, Len(pass_data))
    IN  /\ TotalRecords + Len(emitted) <= MaxRecords
        /\ pass_data' = pass_data \o Recs(emitted)
        /\ call' = Call("extract_pass_data",
                        [NoArgs EXCEPT !.events = passes,
                                       !.frame_numbers = frame_numbers],
                        Len(pass_data), Idxs(emitted), "none", PyNone)
        /\ UNCHANGED <<player_data, ball_data, interception_data, speed_data,
                       team_possession_data>>

\* -------------------------------------------------- extract_interception_data

interception_entry(interception_info, held) ==
    [interception_id |-> Get(interception_info, "interception_id", PyInt(held)),
     frame |-> Get(interception_info, "frame", PyNone),
     interceptor_id |-> Get(interception_info, "interceptor_id", PyNone),
     interceptor_team |-> Get(interception_info, "interceptor_team", PyNone),
     original_team |-> Get(interception_info, "original_team", PyNone),
     timestamp |-> TrueDiv(Get(interception_info, "frame", PyInt(0)), FPSf)]

InterceptionEmitted(interceptions, held) ==
    [i \in 1..Len(interceptions) |->
        [idx |-> i - 1,
         rec |-> interception_entry(interceptions[i], held + i - 1)]]

extract_interception_data(interceptions, frame_numbers) ==
    LET emitted == InterceptionEmitted(interceptions, Len(interception_data))
    IN  /\ TotalRecords + Len(emitted) <= MaxRecords
        /\ interception_data' = interception_data \o Recs(emitted)
        /\ call' = Call("extract_interception_data",
                        [NoArgs EXCEPT !.events = interceptions,
                                       !.frame_numbers = frame_numbers],
                        Len(interception_data), Idxs(emitted), "none", PyNone)
        /\ UNCHANGED <<player_data, ball_data, pass_data, speed_data,
                       team_possession_data>>

\* ----------------------------------------------- extract_team_possession_data

\* Whether `for player_id in possession_info` and len(possession_info) work:
\* a dict, a list or another container, not a scalar such as -1 or None.
Iterable(possession_info) == possession_info.kind # "scalar"

\* team_possession[player_id] = 1 for every player_id the entry yields.
team_possession(possession_info) ==
    [player_id \in Members(possession_info) |-> PyInt(1)]

possession_entry(frame_num, possession_info) ==
    [frame |-> PyInt(frame_num),
     possession_data |-> team_possession(possession_info),
     total_players_with_ball |-> PyInt(Len(possession_info.items)),
     timestamp |-> Timestamp(frame_num)]

\* The frames the loop completes: all of them, or those before the first
\* entry that cannot be iterated, where the call ends in a TypeError.
PossessionDone(ball_aquisition) ==
    IF \E i \in 1..Len(ball_aquisition) : ~Iterable(ball_aquisition[i])
    THEN (CHOOSE i \in 1..Len(ball_aquisition) :
            /\ ~Iterable(ball_aquisition[i])
            /\ \A j \in 1..(i - 1) : Iterable(ball_aquisition[j])) - 1
    ELSE Len(ball_aquisition)

PossessionEmitted(ball_aquisition, frame_numbers) ==
    [i \in 1..PossessionDone(ball_aquisition) |->
        [idx |-> i - 1,
         rec |-> possession_entry(FrameNum(frame_numbers, i - 1),
                                  ball_aquisition[i])]]

extract_team_possession_data(ball_aquisition, frame_numbers) ==
    LET emitted == PossessionEmitted(ball_aquisition, frame_numbers)
    IN  /\ TotalRecords + Len(emitted) <= MaxRecords
        /\ team_possession_data' = team_possession_data \o Recs(emitted)
        /\ call' = Call("extract_team_possession_data",
                        [NoArgs EXCEPT !.possession = ball_aquisition,
                                       !.frame_numbers = frame_numbers],
                        Len(team_possession_data), Idxs(emitted),
                        IF PossessionDone(ball_aquisition) < Len(ball_aquisition)
                        THEN "TypeError" ELSE "none",
                        PyNone)
        /\ UNCHANGED <<player_data, ball_data, pass_data, interception_data,
                       speed_data>>

\* --------------------------------------------------------------- json.dump

Digits == <<"0", "1", "2", "3", "4", "5", "6", "7", "8", "9">>

\* str(k) for an int k.
RECURSIVE IntToStr(_)
IntToStr(k) ==
    IF k < 0 THEN "-" \o IntToStr(-k)
    ELSE IF k < 10 THEN Digits[k + 1]
    ELSE IntToStr(k \div 10) \o Digits[(k % 10) + 1]

\* A Python scalar as JSON text writes it: null, an integer or a real number
\* literal, a string, true or false.
JsonDumpValue(v) ==
    CASE v.t = "none" -> [j |-> "null", n |-> 0, d |-> 1, s |-> ""]
      [] v.t = "int" -> [j |-> "int", n |-> v.n, d |-> 1, s |-> ""]
      [] v.t = "float" -> [j |-> "real", n |-> v.n, d |-> v.d, s |-> ""]
      [] v.t = "str" -> [j |-> "string", n |-> 0, d |-> 1, s |-> v.s]
      [] v.t = "bool" -> [j |-> IF v.n = 1 THEN "true" ELSE "false",
                           n |-> 0, d |-> 1, s |-> ""]

\* A dict key as JSON writes it: always a string (str keys as they are, int
\* keys as their decimal numeral, None as "null", bools as "true"/"false").
JsonDumpKey(k) ==
    CASE k.t = "str" -> k.s
      [] k.t = "int" -> IntToStr(k.n)
      [] k.t = "none" -> "null"
      [] k.t = "bool" -> IF k.n = 1 THEN "true" ELSE "false"

\* A dict as a JSON object; of the keys that write the same string, the
\* reader keeps one.
JsonDumpDict(dict) ==
    [key \in {JsonDumpKey(k) : k \in DOMAIN dict} |->
        JsonDumpValue(dict[CHOOSE k \in DOMAIN dict : JsonDumpKey(k) = key])]

\* One record as a JSON object: its field names are strings already.
JsonDumpRecord(rec) ==
    [f \in DOMAIN rec |->
        IF f = "possession_data" THEN JsonDumpDict(rec[f])
        ELSE JsonDumpValue(rec[f])]

JsonDumpList(data) == [k \in 1..Len(data) |-> JsonDumpRecord(data[k])]

\* json.load, the reader of the file save_to_json writes.
JsonLoadValue(x) ==
    CASE x.j = "null" -> PyNone
      [] x.j = "int" -> PyInt(x.n)
      [] x.j = "real" -> [t |-> "float", n |-> x.n, d |-> x.d, s |-> ""]
      [] x.j = "string" -> PyStr(x.s)
      [] x.j = "true" -> PyBool(TRUE)
      [] x.j = "false" -> PyBool(FALSE)

JsonLoadDict(obj) ==
    LET keys == {PyStr(key) : key \in DOMAIN obj}
    IN  [k \in keys |-> JsonLoadValue(obj[k.s])]

JsonLoadRecord(obj) ==
    [f \in DOMAIN obj |->
        IF f = "possession_data" THEN JsonLoadDict(obj[f])
        ELSE JsonLoadValue(obj[f])]

JsonLoadList(arr) == [k \in 1..Len(arr) |-> JsonLoadRecord(arr[k])]

\* ---------------------------------------------------------------- save_to_*

\* self.output_dir (the default of __init__).
output_dir == "extracted_data"

\* os.path.join(self.output_dir, filename)
PathJoin(dir, filename) == dir \o "/" \o filename

\* Python equality on scalars: numbers (ints, floats, bools) by value,
\* everything else by type and content.  PyKey(x) = PyKey(y) iff x == y.
PyKey(v) ==
    IF v.t \in {"int", "float", "bool"} THEN <<"number", v.n, v.d, "">>
    ELSE <<v.t, 0, 1, v.s>>

\* DistinctCount without the set: len([rec[field] for rec in data]).
CountAll(data, field) == Len(data)

\* len(set([rec[field] for rec in data]))
DistinctCount(data, field) ==
    Cardinality({PyKey(data[k][field]) : k \in 1..Len(data)})

\* The root object save_to_json dumps.
JsonData(now) ==
    [metadata |->
        [extraction_time |-> JsonDumpValue(PyStr(now.iso)),
         total_frames |-> JsonDumpValue(
            IF player_data # <<>> THEN PyInt(Len(player_data) \div 10)
            ELSE PyInt(0)),
         total_players |-> JsonDumpValue(PyInt(DistinctCount(player_data, "player_id"))),
         total_passes |-> JsonDumpValue(PyInt(Len(pass_data))),
         total_interceptions |-> JsonDumpValue(PyInt(Len(interception_data)))],
     player_data |-> JsonDumpList(player_data),
     ball_data |-> JsonDumpList(ball_data),
     pass_data |-> JsonDumpList(pass_data),
     interception_data |-> JsonDumpList(interception_data),
     speed_data |-> JsonDumpList(speed_data),
     team_possession_data |-> JsonDumpList(team_possession_data)]

\* filename, or the default that embeds the time of the call.
DefaultName(filename, now, ext) ==
    IF filename = PyNone THEN "basketball_analysis_" \o now.stamp \o ext
    ELSE filename.s

save_to_json(filename, now) ==
    LET filepath == PathJoin(output_dir, DefaultName(filename, now, ".json"))
    IN  /\ call' = Call("save_to_json", [NoArgs EXCEPT !.filename = filename],
                        0, <<>>, "none",
                        [path |-> filepath, written |-> JsonData(now)])
        /\ UNCHANGED collections

\* The (data_type, data) pairs of save_to_csv, in its order.
CsvDataTypes ==
    << <<"player_data", player_data>>, <<"ball_data", ball_data>>,
       <<"pass_data", pass_data>>, <<"interception_data", interception_data>>,
       <<"speed_data", speed_data>>,
       <<"team_possession_data", team_possession_data>> >>

\* CsvWritten without the `if data` test: a file for every pair.
CsvWrittenAll(filename_prefix, data_types) ==
    [k \in 1..Len(data_types) |->
        [path |-> PathJoin(output_dir,
                    filename_prefix \o "_" \o data_types[k][1] \o ".csv"),
         columns |-> IF data_types[k][2] # <<>>
                     THEN DOMAIN data_types[k][2][1] ELSE {},
         rows |-> Len(data_types[k][2])]]

\* One file per pair whose data is non-empty: its path, its header (the
\* records' field names) and its number of rows.
CsvWritten(filename_prefix, data_types) ==
    Concat([k \in 1..Len(data_types) |->
        IF data_types[k][2] # <<>>
        THEN << [path |-> PathJoin(output_dir,
                            filename_prefix \o "_" \o data_types[k][1] \o ".csv"),
                 columns |-> DOMAIN data_types[k][2][1],
                 rows |-> Len(data_types[k][2])] >>
        ELSE <<>>])

save_to_csv(filename_prefix, now) ==
    LET written == CsvWritten(DefaultName(filename_prefix, now, ""), CsvDataTypes)
    IN  /\ call' = Call("save_to_csv",
                        [NoArgs EXCEPT !.filename = filename_prefix],
                        0, <<>>, "none",
                        [saved_files |-> [k \in 1..Len(written) |-> written[k].path],
                         written |-> written])
        /\ UNCHANGED collections

\* The (sheet_name, data) pairs of save_to_excel, in its order.
ExcelDataTypes ==
    << <<"Player Data", player_data>>, <<"Ball Data", ball_data>>,
       <<"Pass Data", pass_data>>, <<"Interception Data", interception_data>>,
       <<"Speed Data", speed_data>>,
       <<"Team Possession", team_possession_data>> >>

ExcelSheets(data_types) ==
    Concat([k \in 1..Len(data_types) |->
        IF data_types[k][2] # <<>>
        THEN << [sheet_name |-> data_types[k][1],
                 columns |-> DOMAIN data_types[k][2][1],
                 rows |-> Len(data_types[k][2])] >>
        ELSE <<>>])

\* A workbook with no sheet cannot be saved: closing the writer raises
\* (IndexError, "At least one sheet must be visible") and nothing is returned.
save_to_excel(filename, now) ==
    LET filepath == PathJoin(output_dir, DefaultName(filename, now, ".xlsx"))
        sheets == ExcelSheets(ExcelDataTypes)
    IN  /\ call' = Call("save_to_excel", [NoArgs EXCEPT !.filename = filename],
                        0, <<>>,
                        IF sheets = <<>> THEN "IndexError" ELSE "none",
                        [path |-> IF sheets = <<>> THEN "" ELSE filepath,
                         written |-> sheets])
        /\ UNCHANGED collections

\* ------------------------------------------------- generate_summary_report

\* max(values) of a non-empty list of numbers: the first maximal one.
RECURSIVE PyMax(_)
PyMax(values) ==
    IF Len(values) = 1 THEN values[1]
    ELSE LET rest == PyMax(Tail(values))
         IN  IF Less(values[1], rest) THEN rest ELSE values[1]

\* sum(values), starting from the int 0.
RECURSIVE PySum(_)
PySum(values) ==
    IF values = <<>> THEN PyInt(0)
    ELSE Add(PySum(SubSeq(values, 1, Len(values) - 1)), values[Len(values)])

\* entry['speed_mps'] of the entries of one player, in order.
SpeedsOf(player_id) ==
    LET F[k \in 0..Len(speed_data)] ==
            IF k = 0 THEN <<>>
            ELSE IF PyKey(speed_data[k].player_id) = PyKey(player_id)
                 THEN Append(F[k - 1], speed_data[k].speed_mps)
                 ELSE F[k - 1]
    IN  F[Len(speed_data)]

\* The dict comprehension over avg_speeds: sum(speeds) / len(speeds).
AveragePlayerSpeeds ==
    [player_id \in {speed_data[k].player_id : k \in 1..Len(speed_data)} |->
        TrueDiv(PySum(SpeedsOf(player_id)), PyInt(Len(SpeedsOf(player_id))))]

SummaryBase ==
    [total_frames_analyzed |->
        IF player_data # <<>> THEN PyInt(DistinctCount(player_data, "frame"))
        ELSE PyInt(0),
     total_players_detected |->
        IF player_data # <<>> THEN PyInt(DistinctCount(player_data, "player_id"))
        ELSE PyInt(0),
     total_ball_detections |-> PyInt(Len(ball_data)),
     total_passes |-> PyInt(Len(pass_data)),
     total_interceptions |-> PyInt(Len(interception_data)),
     total_speed_measurements |-> PyInt(Len(speed_data)),
     analysis_duration_seconds |->
        IF player_data # <<>>
        THEN PyMax([k \in 1..Len(player_data) |-> player_data[k].timestamp])
        ELSE PyInt(0),
     teams_detected |->
        IF player_data # <<>>
        THEN {player_data[k].team : k \in
                {k \in 1..Len(player_data) : player_data[k].team # PyStr("Unknown")}}
        ELSE {}]

\* The summary dict: average_player_speeds is a key only if speed data exists.
Summary ==
    IF speed_data # <<>>
    THEN [key \in DOMAIN SummaryBase \cup {"average_player_speeds"} |->
            IF key = "average_player_speeds" THEN AveragePlayerSpeeds
            ELSE SummaryBase[key]]
    ELSE SummaryBase

generate_summary_report ==
    /\ call' = Call("generate_summary_report", NoArgs, 0, <<>>, "none", Summary)
    /\ UNCHANGED collections

\* ------------------------------------------------------------------ inputs

P1 == PyInt(7)
P2 == PyStr("p1")

Home == PyStr("Home")
Away == PyStr("Away")

\* The lists of at most n entries that follow the cycle of `entries` from
\* one of the offsets `offs`.
Cyclic(entries, offs, n) ==
    {[i \in 1..k |-> entries[((i - 1 + off) % Len(entries)) + 1]] :
        k \in 0..n, off \in offs}

\* frame_numbers: none, or fewer than, as many as or more than the frames.
FrameNumbers == {<<>>, <<15>>}

FullBox == <<PyInt(2), PyInt(4), PyInt(6), PyInt(9)>>
ShortBox == <<PyInt(2), PyInt(4)>>
NoBox == EmptyDict
WithBox(bbox) == [key \in {"bbox"} |-> bbox]

Dict(items) == [kind |-> "dict", items |-> items]
List(items) == [kind |-> "list", items |-> items]
Tuple(items) == [kind |-> "tuple", items |-> items]
Scalar == [kind |-> "scalar", items |-> <<>>]

\* One frame of extract_player_data: its tracks, team assignment and
\* possession entry.
PlayerFrames ==
    <<[tracks |-> << <<P1, WithBox(FullBox)>> >>,
       assignment |-> [p \in {P1} |-> Home], possession |-> List(<<P1>>)],
      [tracks |-> << <<P1, NoBox>>, <<P2, WithBox(ShortBox)>> >>,
       assignment |-> [p \in {P2} |-> Away], possession |-> Tuple(<<P2>>)],
      [tracks |-> << <<P2, WithBox(FullBox)>> >>,
       assignment |-> EmptyDict, possession |-> Dict(<<P2>>)],
      [tracks |-> << <<P1, WithBox(ShortBox)>> >>,
       assignment |-> [p \in {P1} |-> Away], possession |-> Scalar]>>

\* A ball dict: the tracker's ball id 1, another id, or nothing.
BallInfos ==
    <<[id \in {1} |-> WithBox(FullBox)], [id \in {2} |-> WithBox(FullBox)],
      [id \in {1} |-> WithBox(ShortBox)], EmptyDict>>

FullPass ==
    [pass_id |-> PyInt(40), start_frame |-> PyInt(30), end_frame |-> PyInt(45),
     passer_id |-> P1, receiver_id |-> P2, passer_team |-> Home,
     receiver_team |-> Home, pass_type |-> PyStr("chest")]

Restrict(dict, keys) == [key \in DOMAIN dict \cap keys |-> dict[key]]

PassInfos ==
    <<Restrict(FullPass, {"pass_id", "end_frame"}),
      [Restrict(FullPass, {"start_frame", "end_frame", "passer_id"})
          EXCEPT !.end_frame = PyInt(15)],
      FullPass, EmptyDict>>

FullInterception ==
    [interception_id |-> PyInt(40), frame |-> PyInt(45), interceptor_id |-> P2,
     interceptor_team |-> Away, original_team |-> Home]

InterceptionInfos ==
    <<EmptyDict, Restrict(FullInterception, {"frame", "interceptor_id"}),
      FullInterception>>

SpeedInfos ==
    << << <<P1, PyInt(5)>> >>, << <<P1, PyFloat(5, 2)>> >>,
       << <<P2, PyInt(2)>>, <<P1, PyInt(5)>> >>, <<>> >>

PossessionInfos ==
    <<Dict(<<P1, P2>>), Scalar, List(<<P2, P2>>), Dict(<<>>), Tuple(<<P1>>)>>

\* The possession entries that are containers.
Containers == SelectSeq(PossessionInfos, Iterable)

\* datetime.now(), as strftime("%Y%m%d_%H%M%S") and isoformat() give it.
Nows == {[stamp |-> "20240101_120000", iso |-> "2024-01-01T12:00:00"]}

Project(frames, field, n) == [i \in 1..n |-> frames[i][field]]

\* Every offset into a cycle of entries, or the first only.
AllOffsets(entries) == 0..(Len(entries) - 1)
FirstOffset == {0}
FirstOffsets == {0, 1}

\* extract_player_data on parallel lists, or with the assignment or the
\* possession list one frame shorter than the tracks.
ExtractPlayer(offs) ==
    \E frames \in Cyclic(PlayerFrames, offs, MaxFrames), fn \in FrameNumbers :
    \E short \in {<<0, 0>>, <<1, 0>>, <<0, 1>>} :
        /\ Len(frames) >= short[1] + short[2]
        /\ extract_player_data(
              Project(frames, "tracks", Len(frames)),
              Project(frames, "assignment", Len(frames) - short[1]),
              Project(frames, "possession", Len(frames) - short[2]), fn)

ExtractBall(offs) ==
    \E ball_tracks \in Cyclic(BallInfos, offs, MaxFrames), fn \in FrameNumbers :
        extract_ball_data(ball_tracks, fn)

ExtractPass(offs) ==
    \E passes \in Cyclic(PassInfos, offs, MaxFrames), fn \in {<<15>>} :
        extract_pass_data(passes, fn)

ExtractInterception(offs) ==
    \E interceptions \in Cyclic(InterceptionInfos, offs, MaxFrames), fn \in {<<15>>} :
        extract_interception_data(interceptions, fn)

ExtractSpeed(offs) ==
    \E speeds \in Cyclic(SpeedInfos, offs, MaxFrames), fn \in FrameNumbers :
        extract_speed_data(speeds, fn)

ExtractPossession(entries, offs) ==
    \E ball_aquisition \in Cyclic(entries, offs, MaxFrames), fn \in FrameNumbers :
        extract_team_possession_data(ball_aquisition, fn)

SaveJson ==
    \E filename \in {PyNone, PyStr("run.json")}, now \in Nows :
        save_to_json(filename, now)

SaveCsv ==
    \E prefix \in {PyNone, PyStr("run")}, now \in Nows : save_to_csv(prefix, now)

SaveExcel ==
    \E filename \in {PyNone, PyStr("run.xlsx")}, now \in Nows :
        save_to_excel(filename, now)

\* One extractor, every operation, in any order.
Next ==
    \/ ExtractPlayer(FirstOffset)
    \/ ExtractBall(FirstOffset)
    \/ ExtractPass(FirstOffset)
    \/ ExtractInterception(FirstOffset)
    \/ ExtractSpeed(FirstOffset)
    \/ ExtractPossession(PossessionInfos, FirstOffset)
    \/ SaveJson
    \/ SaveCsv
    \/ SaveExcel
    \/ generate_summary_report

Spec == Init /\ [][Next]_vars

\* The event extractions, interleaved with another extraction.
NextEvents ==
    \/ ExtractPass(AllOffsets(PassInfos))
    \/ ExtractInterception(AllOffsets(InterceptionInfos))
    \/ ExtractSpeed(FirstOffset)

SpecEvents == Init /\ [][NextEvents]_vars

\* What generate_summary_report reads, and the report.
NextSummary ==
    \/ ExtractPlayer(FirstOffsets)
    \/ ExtractSpeed(FirstOffsets)
    \/ ExtractBall(FirstOffset)
    \/ ExtractPass(FirstOffset)
    \/ ExtractInterception(FirstOffset)
    \/ generate_summary_report

SpecSummary == Init /\ [][NextSummary]_vars

\* Possession extraction and the file save_to_json writes of it.
NextPossession ==
    \/ ExtractPossession(PossessionInfos, AllOffsets(PossessionInfos))
    \/ SaveJson

SpecPossession == Init /\ [][NextPossession]_vars

\* Possession extraction on frames whose entries are all containers.
NextContainers ==
    \/ ExtractPossession(Containers, AllOffsets(Containers))
    \/ SaveJson

SpecContainers == Init /\ [][NextContainers]_vars

\* ------------------------------------------------------------------ claims

IsPrefix(old, new) ==
    Len(old) <= Len(new) /\ SubSeq(new, 1, Len(old)) = old

\* The extraction operation of each collection, in the order of `collections`.
ExtractionOps ==
    <<"extract_player_data", "extract_ball_data", "extract_pass_data",
      "extract_interception_data", "extract_speed_data",
      "extract_team_possession_data">>

\* The collection the last call appends to, and what it appended.
OwnData ==
    CASE call.op = "extract_player_data" -> player_data
      [] call.op = "extract_ball_data" -> ball_data
      [] call.op = "extract_pass_data" -> pass_data
      [] call.op = "extract_interception_data" -> interception_data
      [] call.op = "extract_speed_data" -> speed_data
      [] call.op = "extract_team_possession_data" -> team_possession_data
      [] OTHER -> <<>>

Appended == SubSeq(OwnData, call.base + 1, Len(OwnData))

\* C1: every step keeps each collection's earlier records as a prefix, in
\* order and unchanged, and changes no collection but the one of the
\* extraction operation that ran; save_to_json, save_to_csv, save_to_excel
\* and generate_summary_report change none.
C1_AppendOnly ==
    [][\A k \in 1..6 :
          /\ IsPrefix(collections[k], collections'[k])
          /\ collections'[k] # collections[k] => call'.op = ExtractionOps[k]]_vars

C1_Witness ==
    /\ call.op = "extract_pass_data"
    /\ call.base > 0
    /\ Len(pass_data) > call.base

\* timestamp * 30 = frame, for a frame that is a number.
IsFrameOver30(timestamp, frame) ==
    /\ frame.t = "int"
    /\ timestamp.t = "float"
    /\ timestamp.n * FPS * frame.d = frame.n * timestamp.d

\* A missing frame counts as 0.
FrameOrZero(frame) == IF frame = PyNone THEN PyInt(0) ELSE frame

FrameRecords == player_data \o ball_data \o speed_data

\* C2 as stated: every record's timestamp is its frame number over 30, and a
\* pass's start_timestamp, end_timestamp and duration are start_frame / 30,
\* end_frame / 30 and (end_frame - start_frame) / 30.
C2_TimestampIsFrameOver30 ==
    /\ \A k \in 1..Len(FrameRecords) :
          IsFrameOver30(FrameRecords[k].timestamp, FrameRecords[k].frame)
    /\ \A k \in 1..Len(team_possession_data) :
          IsFrameOver30(team_possession_data[k].timestamp,
                        team_possession_data[k].frame)
    /\ \A k \in 1..Len(interception_data) :
          IsFrameOver30(interception_data[k].timestamp, interception_data[k].frame)
    /\ \A k \in 1..Len(pass_data) :
          /\ IsFrameOver30(pass_data[k].start_timestamp, pass_data[k].start_frame)
          /\ IsFrameOver30(pass_data[k].end_timestamp, pass_data[k].end_frame)
          /\ pass_data[k].duration.t = "float"
          /\ pass_data[k].start_frame.t = "int"
          /\ pass_data[k].end_frame.t = "int"
          /\ pass_data[k].duration.n * FPS =
                (pass_data[k].end_frame.n - pass_data[k].start_frame.n)
                    * pass_data[k].duration.d

\* C2, amended: the same, with a frame that the source dict of a pass or an
\* interception lacks (stored as None) counted as 0 in the timestamps and in
\* the duration; player, ball, speed and possession records always hold a
\* frame number.
C2_TimestampIsFrameOrZeroOver30 ==
    /\ \A k \in 1..Len(FrameRecords) :
          IsFrameOver30(FrameRecords[k].timestamp, FrameRecords[k].frame)
    /\ \A k \in 1..Len(team_possession_data) :
          IsFrameOver30(team_possession_data[k].timestamp,
                        team_possession_data[k].frame)
    /\ \A k \in 1..Len(interception_data) :
          IsFrameOver30(interception_data[k].timestamp,
                        FrameOrZero(interception_data[k].frame))
    /\ \A k \in 1..Len(pass_data) :
          /\ IsFrameOver30(pass_data[k].start_timestamp,
                           FrameOrZero(pass_data[k].start_frame))
          /\ IsFrameOver30(pass_data[k].end_timestamp,
                           FrameOrZero(pass_data[k].end_frame))
          /\ pass_data[k].duration.t = "float"
          /\ pass_data[k].duration.n * FPS =
                (FrameOrZero(pass_data[k].end_frame).n
                    - FrameOrZero(pass_data[k].start_frame).n)
                    * pass_data[k].duration.d

\* A pass without start_frame next to a record with a frame that is no
\* multiple of 30.
C2_Witness ==
    /\ \E k \in 1..Len(pass_data) :
          /\ pass_data[k].start_frame = PyNone
          /\ pass_data[k].end_frame # PyNone
          /\ pass_data[k].start_timestamp = PyFloat(0, 1)
    /\ \E k \in 1..Len(FrameRecords) : FrameRecords[k].timestamp.d # 1

\* The six collections as json.load reads them back from a written file.
Reload(written) ==
    <<JsonLoadList(written.player_data), JsonLoadList(written.ball_data),
      JsonLoadList(written.pass_data), JsonLoadList(written.interception_data),
      JsonLoadList(written.speed_data),
      JsonLoadList(written.team_possession_data)>>

\* C3: the file save_to_json writes reads back as the six collections, every
\* key and value of every record equal to what was stored, in order.
C3_JsonRoundTrip ==
    call.op = "save_to_json" => Reload(call.ret.written) = collections

IsExtraction == \E k \in 1..6 : call.op = ExtractionOps[k]

\* C4: no extraction operation ends in an error: whatever the shape of its
\* input, the call completes.
C4_ExtractionNeverRaises ==
    IsExtraction => call.err = "none"

\* C5: a pass appended from a dict without pass_id has as pass_id the number
\* of records pass_data held just before it, its zero-based position in
\* pass_data; an interception without interception_id likewise in
\* interception_data; whatever the other collections hold.
C5_FallbackIdIsPosition ==
    /\ call.op = "extract_pass_data" =>
          /\ Len(pass_data) = call.base + Len(call.args.events)
          /\ \A k \in 1..Len(call.args.events) :
                "pass_id" \notin DOMAIN call.args.events[k] =>
                    pass_data[call.base + k].pass_id = PyInt(call.base + k - 1)
    /\ call.op = "extract_interception_data" =>
          /\ Len(interception_data) = call.base + Len(call.args.events)
          /\ \A k \in 1..Len(call.args.events) :
                "interception_id" \notin DOMAIN call.args.events[k] =>
                    interception_data[call.base + k].interception_id
                        = PyInt(call.base + k - 1)

\* After a speed extraction, a second pass extraction appends a pass
\* without pass_id.
C5_Witness ==
    /\ call.op = "extract_pass_data"
    /\ Len(speed_data) > 0
    /\ call.base > 0
    /\ \E k \in 1..Len(call.args.events) :
          /\ "pass_id" \notin DOMAIN call.args.events[k]
          /\ pass_data[call.base + k].pass_id = PyInt(call.base + k - 1)

CollectionNames ==
    <<"player_data", "ball_data", "pass_data", "interception_data",
      "speed_data", "team_possession_data">>

NonEmpty == {k \in 1..6 : collections[k] # <<>>}

\* The j-th non-empty collection, in the fixed order.
NthNonEmpty(j) ==
    CHOOSE k \in NonEmpty : Cardinality({m \in NonEmpty : m <= k}) = j

CsvPath(k) ==
    "extracted_data/"
        \o (IF call.args.filename = PyNone THEN "basketball_analysis_20240101_120000"
            ELSE call.args.filename.s)
        \o "_" \o CollectionNames[k] \o ".csv"

\* C6: save_to_csv writes one file for each non-empty collection and none for
\* an empty one, and returns their paths, <prefix>_<collection>.csv, in the
\* order player, ball, pass, interception, speed, team possession.
C6_CsvOnePerNonEmpty ==
    call.op = "save_to_csv" =>
        /\ call.err = "none"
        /\ Len(call.ret.saved_files) = Cardinality(NonEmpty)
        /\ Len(call.ret.written) = Cardinality(NonEmpty)
        /\ \A j \in 1..Len(call.ret.saved_files) :
              /\ call.ret.saved_files[j] = CsvPath(NthNonEmpty(j))
              /\ call.ret.written[j].path = CsvPath(NthNonEmpty(j))
              /\ call.ret.written[j].rows = Len(collections[NthNonEmpty(j)])

\* Only pass_data holds records: one file, pass_data's.
C6_Witness ==
    /\ call.op = "save_to_csv"
    /\ NonEmpty = {3}
    /\ call.ret.saved_files = <<"extracted_data/run_pass_data.csv">>

\* The speed_mps values of one player as an exact fraction: their sum
\* num / den and their count.
SpeedTotal(player_id) ==
    LET mine == {k \in 1..Len(speed_data) : speed_data[k].player_id = player_id}
        F[k \in 0..Len(speed_data)] ==
            IF k = 0 THEN <<0, 1>>
            ELSE IF k \in mine
                 THEN <<F[k - 1][1] * speed_data[k].speed_mps.d
                            + speed_data[k].speed_mps.n * F[k - 1][2],
                        F[k - 1][2] * speed_data[k].speed_mps.d>>
                 ELSE F[k - 1]
    IN  [num |-> F[Len(speed_data)][1], den |-> F[Len(speed_data)][2],
         count |-> Cardinality(mine)]

\* C7: generate_summary_report returns, and its fields are: the number of
\* distinct frames, of distinct player ids, the largest timestamp and the team
\* labels other than 'Unknown' of player_data (0, 0, 0 and none when it is
\* empty); the lengths of ball_data, pass_data, interception_data and
\* speed_data; and average_player_speeds exactly when speed_data is non-empty,
\* mapping each of its players to the mean of that player's speed_mps.
C7_SummaryReport ==
    call.op = "generate_summary_report" =>
        LET summary == call.ret
            frames == {player_data[k].frame : k \in 1..Len(player_data)}
            players == {player_data[k].player_id : k \in 1..Len(player_data)}
            stamps == {player_data[k].timestamp : k \in 1..Len(player_data)}
            teams == {player_data[k].team : k \in 1..Len(player_data)}
            speeders == {speed_data[k].player_id : k \in 1..Len(speed_data)}
        IN  /\ call.err = "none"
            /\ summary.total_frames_analyzed = PyInt(Cardinality(frames))
            /\ summary.total_players_detected = PyInt(Cardinality(players))
            /\ IF player_data = <<>>
               THEN summary.analysis_duration_seconds = PyInt(0)
               ELSE /\ summary.analysis_duration_seconds \in stamps
                    /\ \A t \in stamps :
                          ~Less(summary.analysis_duration_seconds, t)
            /\ summary.teams_detected = teams \ {PyStr("Unknown")}
            /\ summary.total_ball_detections = PyInt(Len(ball_data))
            /\ summary.total_passes = PyInt(Len(pass_data))
            /\ summary.total_interceptions = PyInt(Len(interception_data))
            /\ summary.total_speed_measurements = PyInt(Len(speed_data))
            /\ "average_player_speeds" \in DOMAIN summary <=> speed_data # <<>>
            /\ speed_data # <<>> =>
                  /\ DOMAIN summary.average_player_speeds = speeders
                  /\ \A p \in speeders :
                        LET mean == summary.average_player_speeds[p]
                            total == SpeedTotal(p)
                        IN  /\ mean.t = "float"
                            /\ mean.n * total.count * total.den
                                  = total.num * mean.d

\* A report over two players seen in one frame, and over one player's two
\* different speeds.
C7_Witness ==
    /\ call.op = "generate_summary_report"
    /\ Len(player_data) = 2
    /\ call.ret.total_frames_analyzed = PyInt(1)
    /\ call.ret.total_players_detected = PyInt(2)
    /\ "average_player_speeds" \in DOMAIN call.ret

\* C8: extract_team_possession_data appends one record for each frame of its
\* input, and each record's possession_data maps the players of that frame's
\* possession info to 1, total_players_with_ball being the number of those
\* players, the number of keys of possession_data.
C8_PossessionCountsPlayers ==
    call.op = "extract_team_possession_data" =>
        /\ Len(Appended) = Len(call.args.possession)
        /\ \A k \in 1..Len(Appended) :
              /\ DOMAIN Appended[k].possession_data
                    = Members(call.args.possession[k])
              /\ \A p \in DOMAIN Appended[k].possession_data :
                    Appended[k].possession_data[p] = PyInt(1)
              /\ Appended[k].total_players_with_ball
                    = PyInt(Cardinality(DOMAIN Appended[k].possession_data))

\* The players of the first n frames of the tracks, as <<frame, player>>
\* (frames from 1), in the order the frames and their dicts give.
PlayersOf(player_tracks, n) ==
    Concat([i \in 1..n |->
        [j \in 1..Len(player_tracks[i]) |-> <<i, player_tracks[i][j][1]>>]])

\* What extract_player_data appended is one record per player of the first n
\* frames, in order, with the team and the has_ball that `holds` gives.
PlayerRecordsFor(n, holds(_, _)) ==
    LET args == call.args
        players == PlayersOf(args.tracks, n)
    IN  /\ Len(Appended) = Len(players)
        /\ \A k \in 1..Len(players) :
              LET i == players[k][1]
                  player == players[k][2]
              IN  /\ Appended[k].player_id = player
                  /\ Appended[k].team =
                        (IF player \in DOMAIN args.assignment[i]
                         THEN args.assignment[i][player] ELSE PyStr("Unknown"))
                  /\ Appended[k].has_ball = PyBool(holds(player, args.possession[i]))

IsMember(player, possession) == player \in Members(possession)

IsMemberOfDictOrList(player, possession) ==
    possession.kind \in {"dict", "list"} /\ player \in Members(possession)

\* C9 as stated: every frame of the track list yields one record per player,
\* in order, with team = assignment[i][player] or 'Unknown' and has_ball = the
\* player is a member of possession[i]; the call appends as many records as
\* the track list has players.
C9_OneRecordPerTrackedPlayer ==
    call.op = "extract_player_data" =>
        /\ Len(Appended)
              = Len(PlayersOf(call.args.tracks, Len(call.args.tracks)))
        /\ Len(call.args.assignment) >= Len(call.args.tracks)
        /\ Len(call.args.possession) >= Len(call.args.tracks)
        /\ PlayerRecordsFor(Len(call.args.tracks), IsMember)

\* C9, amended: the frames paired are those below the length of the shortest
\* of the track, assignment and possession lists; has_ball is membership when
\* possession[i] is a dict or a list and false for any other shape; the call
\* appends as many records as those frames have players.
C9_OneRecordPerZippedPlayer ==
    call.op = "extract_player_data" =>
        PlayerRecordsFor(
            Min(Len(call.args.tracks),
                Min(Len(call.args.assignment), Len(call.args.possession))),
            IsMemberOfDictOrList)

\* Two track frames against one assignment frame: the first frame's record
\* is appended, the second frame is not paired.
C9_Witness ==
    /\ call.op = "extract_player_data"
    /\ Len(call.args.tracks) = 2
    /\ Len(call.args.assignment) = 1
    /\ Len(Appended) >= 1

\* How often the index i occurs in the log of the last call.
Occurrences(i) == Cardinality({k \in 1..Len(call.log) : call.log[k] = i})

\* The records frame i (from 0) of the last call's data owes, whatever the
\* frame numbers are.
Owed(i) ==
    CASE call.op = "extract_player_data" ->
            IF i < Min(Len(call.args.tracks),
                       Min(Len(call.args.assignment), Len(call.args.possession)))
            THEN Len(call.args.tracks[i + 1]) ELSE 0
      [] call.op = "extract_ball_data" ->
            IF 1 \in DOMAIN call.args.tracks[i + 1] THEN 1 ELSE 0
      [] call.op = "extract_speed_data" -> Len(call.args.tracks[i + 1])
      [] call.op = "extract_team_possession_data" ->
            IF \A m \in 1..(i + 1) : call.args.possession[m].kind # "scalar"
            THEN 1 ELSE 0

FrameCount ==
    IF call.op = "extract_team_possession_data" THEN Len(call.args.possession)
    ELSE Len(call.args.tracks)

\* C10: a record made from the per-frame entry at index i has frame =
\* frame_numbers[i] when i < len(frame_numbers) and frame = i otherwise; frame
\* numbers shorter than the data cause no error and drop no record.
C10_FrameNumberOrIndex ==
    call.op \in {"extract_player_data", "extract_ball_data",
                 "extract_speed_data", "extract_team_possession_data"} =>
        /\ Len(Appended) = Len(call.log)
        /\ \A k \in 1..Len(call.log) :
              Appended[k].frame =
                  PyInt(IF call.log[k] < Len(call.args.frame_numbers)
                        THEN call.args.frame_numbers[call.log[k] + 1]
                        ELSE call.log[k])
        /\ \A i \in 0..(FrameCount - 1) : Occurrences(i) = Owed(i)
        /\ call.err # "none" =>
              \E m \in 1..Len(call.args.possession) :
                  call.args.possession[m].kind = "scalar"

\* One frame number for two frames of speeds: the first record takes the
\* frame number, the second its index.
C10_Witness ==
    /\ call.op = "extract_speed_data"
    /\ call.args.frame_numbers = <<15>>
    /\ Len(call.args.tracks) = 2
    /\ Len(Appended) = 2
    /\ Appended[1].frame = PyInt(15)
    /\ Appended[2].frame = PyInt(1)

====
